---- MODULE Spec2Model ----
(***************************************************************************)
(* CSV engine of johannschopplich/utils: escapeCSVValue, createCSV and the *)
(* character-level tokenizer of parseCSV; and the Map-based event emitter  *)
(* createEmitter.                                                          *)
(*                                                                         *)
(* A JavaScript string is a sequence of one-character strings.  A          *)
(* JavaScript value is a tagged record, an object a function from its own  *)
(* keys (strings) to values.                                               *)
(***************************************************************************)
EXTENDS Integers, Sequences, FiniteSets

(***************************************************************************)
(* Bounds of the explored inputs.                                          *)
(***************************************************************************)
MaxLen == 5       \* longest raw text handed to parseCSV
MaxRows == 2      \* longest data list handed to createCSV
MaxCols == 2      \* longest column list handed to createCSV
MaxValueLen == 3  \* longest string handed to escapeCSVValue
MaxHandlers == 3  \* most handlers registered with an emitter at a time
MaxAccesses == 3  \* most accesses to the value property of a lazy object
MaxOps == 5       \* most calls made on an object-based emitter

(***************************************************************************)
(* State.                                                                  *)
(***************************************************************************)
VARIABLES
  value,         \* escapeCSVValue: the value to escape
  escaped,       \* escapeCSVValue: the returned text
  data,          \* createCSV: the list of row objects
  columns,       \* createCSV: the list of column keys
  delimiter,     \* option delimiter
  quoteAll,      \* option quoteAll
  addHeader,     \* option addHeader
  trimValues,    \* option trimValues
  csv,           \* the text returned by createCSV / handed to parseCSV
  i,             \* parseCSV: loop index (0-based)
  rows,          \* parseCSV: completed rows
  currentRow,    \* parseCSV: completed fields of the open row
  currentField,  \* parseCSV: text of the open field
  inQuotes,      \* parseCSV: quoted state
  result,        \* parseCSV: the returned list of row objects, once pc = "done"
  events,        \* createEmitter: the Map of event types to handler lists
  call,          \* emitter: the method called last, with its arguments
  handlers,      \* emit: the copy of a handler list that is iterated
  position,      \* emit: number of handlers of the copy already invoked
  calls,         \* the invocations of handlers made by the last call
  unbinds,       \* object-based emitter: the unbind functions on returned
  log,           \* object-based emitter: the calls made, in order
  getter,        \* lazy: what the getter returns, invocation by invocation
  property,      \* lazy: the property value of the returned object
  invocations,   \* lazy: number of invocations of the getter
  returned,      \* lazy: what the accesses to value returned, in order
  pc             \* position of the running call

vars ==
  <<value, escaped, data, columns, delimiter, quoteAll, addHeader, trimValues,
    csv, i, rows, currentRow, currentField, inQuotes, result,
    events, call, handlers, position, calls, unbinds, log,
    getter, property, invocations, returned, pc>>

escapeVars == <<value, escaped>>
createVars == <<data, columns>>
optionVars == <<delimiter, quoteAll, addHeader, trimValues>>
loopVars == <<i, rows, currentRow, currentField, inQuotes>>
csvVars ==
  <<escapeVars, createVars, optionVars, csv, loopVars, result>>
emitterVars == <<events, call, handlers, position, calls>>
unbindVars == <<unbinds, log>>
lazyVars == <<getter, property, invocations, returned>>

(***************************************************************************)
(* Characters.                                                             *)
(***************************************************************************)
Quote == "\""
LF == "\n"
CR == "\r"
Comma == ","
Space == " "

\* Parameters of the operators below: v the value, d the delimiter, q
\* quoteAll, h addHeader, tv trimValues, objs the data, cols the columns,
\* text the csv argument, s its characters, t a tokenizer state.

Range(f) == {f[x] : x \in DOMAIN f}

SeqsUpTo(S, n) == UNION {[1..k -> S] : k \in 0..n}

(***************************************************************************)
(* JavaScript values.                                                      *)
(***************************************************************************)
Undefined == [t |-> "undefined"]
Null == [t |-> "null"]
Str(s) == [t |-> "string", s |-> s]
Bool(b) == [t |-> "boolean", b |-> b]
Num(n) == [t |-> "number", n |-> n]
Fn(name) == [t |-> "function", name |-> name]

\* value == null
IsNullish(v) == v.t \in {"undefined", "null"}

Digit(d) ==
  CASE d = 0 -> "0" [] d = 1 -> "1" [] d = 2 -> "2" [] d = 3 -> "3"
    [] d = 4 -> "4" [] d = 5 -> "5" [] d = 6 -> "6" [] d = 7 -> "7"
    [] d = 8 -> "8" [] d = 9 -> "9"

RECURSIVE NumberToString(_)
NumberToString(n) ==
  IF n < 10 THEN <<Digit(n)>>
  ELSE NumberToString(n \div 10) \o <<Digit(n % 10)>>

\* String(value) for a value that is not null or undefined.
StringOf(v) ==
  CASE v.t = "string" -> v.s
    [] v.t = "boolean" ->
         IF v.b THEN <<"t", "r", "u", "e">> ELSE <<"f", "a", "l", "s", "e">>
    [] v.t = "number" -> NumberToString(v.n)
    [] v.t = "function" ->
         <<"f", "u", "n", "c", "t", "i", "o", "n", Space>> \o v.name
           \o <<"(", ")", Space, "{", Space, "[", "n", "a", "t", "i", "v",
                "e", Space, "c", "o", "d", "e", "]", Space, "}">>

(***************************************************************************)
(* String primitives used by the CSV code.                                 *)
(***************************************************************************)
\* Mutant of IsWhiteSpace: a trim that knows no carriage return.
IsWhiteSpace_noCR(c) == c \in {Space, LF, "\t"}

\* The characters String.prototype.trim removes (white space and line
\* terminators), as far as they occur in the explored texts.
IsWhiteSpace(c) == c \in {Space, LF, CR, "\t"}

RECURSIVE TrimStart(_)
TrimStart(s) ==
  IF s # <<>> /\ IsWhiteSpace(Head(s)) THEN TrimStart(Tail(s)) ELSE s

RECURSIVE TrimEnd(_)
TrimEnd(s) ==
  IF s # <<>> /\ IsWhiteSpace(s[Len(s)])
  THEN TrimEnd(SubSeq(s, 1, Len(s) - 1))
  ELSE s

\* s.trim()
Trim(s) == TrimEnd(TrimStart(s))

\* s.includes(sub)
Includes(s, sub) ==
  \E p \in 1..(Len(s) + 1) :
    /\ p + Len(sub) - 1 <= Len(s)
    /\ SubSeq(s, p, p + Len(sub) - 1) = sub

\* Mutant of DoubleQuotes: the quotes are left single.
DoubleQuotes_kept(s) == s

\* s.replaceAll('"', '""')
RECURSIVE DoubleQuotes(_)
DoubleQuotes(s) ==
  IF s = <<>> THEN <<>>
  ELSE (IF Head(s) = Quote THEN <<Quote, Quote>> ELSE <<Head(s)>>)
         \o DoubleQuotes(Tail(s))

\* parts.join(sep)
RECURSIVE Join(_, _)
Join(parts, sep) ==
  IF parts = <<>> THEN <<>>
  ELSE IF Len(parts) = 1 THEN parts[1]
  ELSE parts[1] \o sep \o Join(Tail(parts), sep)

(***************************************************************************)
(* escapeCSVValue(v, { d, q })                          *)
(***************************************************************************)
\* Mutant of needsQuoting: a carriage return alone does not ask for quotes.
needsQuoting_noCR(stringValue, d, q) ==
  \/ q
  \/ Includes(stringValue, d)
  \/ Includes(stringValue, <<Quote>>)
  \/ Includes(stringValue, <<LF>>)

needsQuoting(stringValue, d, q) ==
  \/ q
  \/ Includes(stringValue, d)
  \/ Includes(stringValue, <<Quote>>)
  \/ Includes(stringValue, <<LF>>)
  \/ Includes(stringValue, <<CR>>)

\* Mutant of escapeCSVValue: the text is never quoted.
escapeCSVValue_plain(v, d, q) ==
  IF IsNullish(v) THEN <<>> ELSE StringOf(v)

escapeCSVValue(v, d, q) ==
  IF IsNullish(v) THEN <<>>
  ELSE LET stringValue == StringOf(v)
       IN  IF needsQuoting(stringValue, d, q)
           THEN <<Quote>> \o DoubleQuotes(stringValue) \o <<Quote>>
           ELSE stringValue

(***************************************************************************)
(* createCSV(data, columns, { delimiter, addHeader, quoteAll })            *)
(***************************************************************************)
\* The property key "constructor".
Constructor == <<"c", "o", "n", "s", "t", "r", "u", "c", "t", "o", "r">>

\* What a row object inherits: an object literal, and an object built by
\* Object.fromEntries, has Object.prototype as its prototype, whose
\* constructor property is the function Object.
ObjectPrototype ==
  [key \in {Constructor} |-> Fn(<<"O", "b", "j", "e", "c", "t">>)]

\* obj[key]: the object's own property, else the inherited one, else
\* undefined
Get(obj, key) ==
  IF key \in DOMAIN obj THEN obj[key]
  ELSE IF key \in DOMAIN ObjectPrototype THEN ObjectPrototype[key]
  ELSE Undefined

\* Mutant of escapeAndQuote: the delimiter option is not passed on.
escapeAndQuote_defaultDelimiter(v, d, q) ==
  escapeCSVValue(v, <<Comma>>, q)

escapeAndQuote(v, d, q) ==
  escapeCSVValue(v, d, q)

\* columns.map(key => escapeAndQuote(obj[key])).join(delimiter)
dataLine(obj, cols, d, q) ==
  Join([c \in 1..Len(cols) |->
          escapeAndQuote(Get(obj, cols[c]), d, q)],
       d)

\* Mutant of headerLine: the column names are joined as they are.
headerLine_unescaped(cols, d, q) ==
  Join([c \in 1..Len(cols) |-> cols[c]], d)

\* columns.map(escapeAndQuote).join(delimiter)
headerLine(cols, d, q) ==
  Join([c \in 1..Len(cols) |->
          escapeAndQuote(Str(cols[c]), d, q)],
       d)

createCSV_joinCR(objs, cols, d, h, q) ==
  LET mapped == [r \in 1..Len(objs) |->
                   dataLine(objs[r], cols, d, q)]
      lines == IF h
               THEN <<headerLine(cols, d, q)>> \o mapped
               ELSE mapped
  IN  Join(lines, <<CR>>)

\* Mutant of createCSV: every line is terminated by \n.
createCSV_trailingNewline(objs, cols, d, h, q) ==
  LET mapped == [r \in 1..Len(objs) |->
                   dataLine(objs[r], cols, d, q) \o <<LF>>]
      lines == IF h
               THEN <<headerLine(cols, d, q) \o <<LF>>>> \o mapped
               ELSE mapped
  IN  Join(lines, <<>>)

createCSV(objs, cols, d, h, q) ==
  LET mapped == [r \in 1..Len(objs) |->
                   dataLine(objs[r], cols, d, q)]
      lines == IF h
               THEN <<headerLine(cols, d, q)>> \o mapped
               ELSE mapped
  IN  Join(lines, <<LF>>)

(***************************************************************************)
(* parseCSV(csv, { delimiter, trimValues }): the tokenizer.                *)
(* A tokenizer state is the record of the locals of the loop; i is the     *)
(* 0-based index of the source, so the current character is s[i + 1].      *)
(***************************************************************************)
\* !csv?.trim()
isBlankInput(text) ==
  IF IsNullish(text) THEN TRUE ELSE Trim(text.s) = <<>>

startState ==
  [i |-> 0, rows |-> <<>>, currentRow |-> <<>>, currentField |-> <<>>,
   inQuotes |-> FALSE]

\* csv[i]
charAt(s, n) == <<s[n + 1]>>

\* i + 1 < csv.length ? csv[i + 1] : ''
nextCharAt(s, n) == IF n + 1 < Len(s) THEN <<s[n + 2]>> ELSE <<>>

\* Mutant of stored: only the end of the field is trimmed.
stored_trimEnd(field, tv) == IF tv THEN TrimEnd(field) ELSE field

\* trimValues ? currentField.trim() : currentField
stored(field, tv) == IF tv THEN Trim(field) ELSE field

\* char === '"'
isQuoteChar(t, s) == charAt(s, t.i) = <<Quote>>

\* inQuotes && nextChar === '"'
isEscapedQuote(t, s) ==
  isQuoteChar(t, s) /\ t.inQuotes /\ nextCharAt(s, t.i) = <<Quote>>

\* Mutant of isFieldDelimiter: the quoted state is not looked at.
isFieldDelimiter_anywhere(t, s, d) ==
  ~isQuoteChar(t, s) /\ charAt(s, t.i) = d

\* char === delimiter && !inQuotes
isFieldDelimiter(t, s, d) ==
  ~isQuoteChar(t, s) /\ charAt(s, t.i) = d /\ ~t.inQuotes

\* Mutant of isRowDelimiter: only a line feed ends a row.
isRowDelimiter_onlyLF(t, s, d) ==
  /\ ~isQuoteChar(t, s)
  /\ ~isFieldDelimiter(t, s, d)
  /\ charAt(s, t.i) = <<LF>>
  /\ ~t.inQuotes

\* Mutant of isRowDelimiter: the quoted state is not looked at.
isRowDelimiter_anyState(t, s, d) ==
  /\ ~isQuoteChar(t, s)
  /\ ~isFieldDelimiter(t, s, d)
  /\ \/ charAt(s, t.i) = <<LF>>
     \/ charAt(s, t.i) = <<CR>> /\ nextCharAt(s, t.i) = <<LF>>

\* Mutant of isRowDelimiter: a carriage return ends a row by itself.
isRowDelimiter_loneCR(t, s, d) ==
  /\ ~isQuoteChar(t, s)
  /\ ~isFieldDelimiter(t, s, d)
  /\ charAt(s, t.i) \in {<<LF>>, <<CR>>}
  /\ ~t.inQuotes

\* (char === '\n' || (char === '\r' && nextChar === '\n')) && !inQuotes
isRowDelimiter(t, s, d) ==
  /\ ~isQuoteChar(t, s)
  /\ ~isFieldDelimiter(t, s, d)
  /\ \/ charAt(s, t.i) = <<LF>>
     \/ charAt(s, t.i) = <<CR>> /\ nextCharAt(s, t.i) = <<LF>>
  /\ ~t.inQuotes

\* Mutant of escapedQuote: the second quote is not skipped.
escapedQuote_noSkip(t) ==
  [t EXCEPT !.currentField = Append(@, Quote), !.i = @ + 1]

\* currentField += '"'; i++ (and the i++ of the loop)
escapedQuote(t) ==
  [t EXCEPT !.currentField = Append(@, Quote), !.i = @ + 2]

toggleQuote(t) ==
  [t EXCEPT !.inQuotes = ~@, !.i = @ + 1]

fieldDelimiter(t, tv) ==
  [t EXCEPT !.currentRow = Append(@, stored(t.currentField, tv)),
            !.currentField = <<>>,
            !.i = @ + 1]

rowDelimiter(t, s, tv) ==
  [t EXCEPT !.rows = Append(@, Append(t.currentRow,
                                      stored(t.currentField, tv))),
            !.currentRow = <<>>,
            !.currentField = <<>>,
            !.i = IF charAt(s, t.i) = <<CR>> THEN @ + 2 ELSE @ + 1]

otherChar(t, s) ==
  [t EXCEPT !.currentField = @ \o charAt(s, t.i), !.i = @ + 1]

\* One iteration of the for loop.
loopBody(t, s, d, tv) ==
  IF isQuoteChar(t, s)
  THEN IF isEscapedQuote(t, s) THEN escapedQuote(t) ELSE toggleQuote(t)
  ELSE IF isFieldDelimiter(t, s, d) THEN fieldDelimiter(t, tv)
  ELSE IF isRowDelimiter(t, s, d) THEN rowDelimiter(t, s, tv)
  ELSE otherChar(t, s)

\* Mutant of flush: only a non-empty last field is looked at.
flush_fieldOnly(t, tv) ==
  IF t.currentField # <<>>
  THEN Append(t.rows, Append(t.currentRow, stored(t.currentField, tv)))
  ELSE t.rows

\* Handle the last field and row if needed.
flush(t, tv) ==
  IF t.currentField # <<>> \/ Len(t.currentRow) > 0
  THEN Append(t.rows, Append(t.currentRow, stored(t.currentField, tv)))
  ELSE t.rows

\* Mutant of isNotEmptyRow: the fields are not trimmed before the test.
isNotEmptyRow_untrimmed(row) == \E f \in 1..Len(row) : Len(row[f]) > 0

\* row.some(field => field.trim().length > 0)
isNotEmptyRow(row) == \E f \in 1..Len(row) : Len(Trim(row[f])) > 0

\* Mutant of rowObject: the first position of a repeated name gives the
\* value.
rowObject_firstWins(headers, values) ==
  [key \in Range(headers) |->
     LET index == CHOOSE x \in 1..Len(headers) :
                    /\ headers[x] = key
                    /\ \A y \in 1..(x - 1) : headers[y] # key
     IN  IF index <= Len(values) THEN values[index] ELSE <<>>]

\* Mutant of rowObject: only the header names that have a field get a key.
rowObject_zip(headers, values) ==
  [key \in {headers[x] : x \in 1..(IF Len(values) < Len(headers)
                                     THEN Len(values) ELSE Len(headers))} |->
     LET index == CHOOSE x \in 1..Len(values) :
                    /\ x <= Len(headers)
                    /\ headers[x] = key
                    /\ \A y \in (x + 1)..Len(values) :
                         y <= Len(headers) => headers[y] # key
     IN  values[index]]

\* Mutant of rowObject: the bound test is off by one, index < values.length - 1.
rowObject_offByOne(headers, values) ==
  [key \in Range(headers) |->
     LET index == CHOOSE x \in 1..Len(headers) :
                    /\ headers[x] = key
                    /\ \A y \in (x + 1)..Len(headers) : headers[y] # key
     IN  IF index < Len(values) THEN values[index] ELSE <<>>]

\* Object.fromEntries(headers.map((header, index) =>
\*   [header, index < values.length ? values[index] : '']))
\* A later entry with the same key replaces an earlier one.
rowObject(headers, values) ==
  [key \in Range(headers) |->
     LET index == CHOOSE x \in 1..Len(headers) :
                    /\ headers[x] = key
                    /\ \A y \in (x + 1)..Len(headers) : headers[y] # key
     IN  IF index <= Len(values) THEN values[index] ELSE <<>>]

\* Mutant of assemble: the header is the first row that is not blank.
assemble_skipBlankHeader(rs) ==
  LET filled == SelectSeq(rs, isNotEmptyRow)
  IN  IF Len(filled) <= 1 THEN <<>>
      ELSE [r \in 1..(Len(filled) - 1) |->
              rowObject(filled[1], filled[r + 1])]

\* Mutant of assemble: the blank rows are not filtered out.
assemble_noFilter(rs) ==
  IF Len(rs) <= 1 THEN <<>>
  ELSE [r \in 1..(Len(rs) - 1) |-> rowObject(rs[1], rs[r + 1])]

\* rows.slice(1).filter(...).map(...), or [] when rows.length <= 1
assemble(rs) ==
  IF Len(rs) <= 1 THEN <<>>
  ELSE LET headers == rs[1]
           kept == SelectSeq(Tail(rs), isNotEmptyRow)
       IN  [r \in 1..Len(kept) |-> rowObject(headers, kept[r])]

RECURSIVE tokenize(_, _, _, _)
tokenize(t, s, d, tv) ==
  IF t.i < Len(s)
  THEN tokenize(loopBody(t, s, d, tv), s, d, tv)
  ELSE t

\* The rows the tokenizer produces for a text, the final flush included.
parsedRows(s, d, tv) ==
  flush(tokenize(startState, s, d, tv), tv)

parseCSV(text, d, tv) ==
  IF isBlankInput(text) THEN <<>>
  ELSE assemble(parsedRows(text.s, d, tv))

None == [t |-> "none"]

\* The locals of the loop as a tokenizer state, and back.
tok ==
  [i |-> i, rows |-> rows, currentRow |-> currentRow,
   currentField |-> currentField, inQuotes |-> inQuotes]

SetTok(t) ==
  /\ i' = t.i
  /\ rows' = t.rows
  /\ currentRow' = t.currentRow
  /\ currentField' = t.currentField
  /\ inQuotes' = t.inQuotes

(***************************************************************************)
(* createEmitter(events): on, off, emit over the Map of handler lists.     *)
(* The Map is a function from the event types it holds to handler lists;   *)
(* an event type is a string or a symbol, a handler a function identified  *)
(* by its name.                                                            *)
(***************************************************************************)
\* The wildcard event type '*'.
Star == "*"

\* An omitted argument.
Omitted == "undefined"

\* events.set(type, list)
eventsSet(evs, type, list) ==
  [key \in DOMAIN evs \cup {type} |-> IF key = type THEN list ELSE evs[key]]

\* list.indexOf(handler), 0-based, -1 when the list does not hold it
indexOf(list, handler) ==
  IF \E x \in 1..Len(list) : list[x] = handler
  THEN (CHOOSE x \in 1..Len(list) :
          /\ list[x] = handler
          /\ \A y \in 1..(x - 1) : list[y] # handler) - 1
  ELSE -1

\* What -1 >>> 0 stands for.  It is 4294967295, the largest unsigned
\* 32-bit number, one more than the largest array index; the model checker
\* counts in signed 32 bits, so its largest number takes the place: as a
\* start of splice both lie behind the end of every list.
BeyondEveryIndex == 2147483647

\* Mutant of ToUint32: the -1 of indexOf is passed on as it is.
ToUint32_signed(n) == n

\* n >>> 0 for an n that indexOf returns: n itself when it is an index,
\* the number behind every index for -1
ToUint32(n) == IF n >= 0 THEN n ELSE BeyondEveryIndex

\* list.splice(start, deleteCount): the list that remains; a negative start
\* counts from the end of the list
splice(list, start, deleteCount) ==
  LET from == IF start < 0
              THEN (IF Len(list) + start < 0 THEN 0 ELSE Len(list) + start)
              ELSE IF start > Len(list) THEN Len(list) ELSE start
      count == IF deleteCount > Len(list) - from THEN Len(list) - from
               ELSE deleteCount
  IN  SubSeq(list, 1, from) \o SubSeq(list, from + count + 1, Len(list))

\* Mutant of on: the event type is put in lower case.
on_lowerCase(evs, type, handler) ==
  LET lower == IF type = "FOO" THEN "foo" ELSE type
  IN  IF lower \in DOMAIN evs
      THEN eventsSet(evs, lower, Append(evs[lower], handler))
      ELSE eventsSet(evs, lower, <<handler>>)

\* on(type, handler)
on(evs, type, handler) ==
  IF type \in DOMAIN evs
  THEN eventsSet(evs, type, Append(evs[type], handler))
  ELSE eventsSet(evs, type, <<handler>>)

\* Mutant of off: every occurrence of the handler is removed.
off_everyOccurrence(evs, type, handler) ==
  IF type \in DOMAIN evs
  THEN IF handler # Omitted
       THEN eventsSet(evs, type,
                      SelectSeq(evs[type], LAMBDA x : x # handler))
       ELSE eventsSet(evs, type, <<>>)
  ELSE evs

\* Mutant of off: without a handler the whole Map is cleared.
off_clear(evs, type, handler) ==
  IF type \in DOMAIN evs
  THEN IF handler # Omitted
       THEN eventsSet(evs, type,
                      splice(evs[type],
                             ToUint32(indexOf(evs[type], handler)), 1))
       ELSE [key \in {type} |-> <<>>]
  ELSE evs

\* off(type, handler?)
off(evs, type, handler) ==
  IF type \in DOMAIN evs
  THEN IF handler # Omitted
       THEN eventsSet(evs, type,
                      splice(evs[type],
                             ToUint32(indexOf(evs[type], handler)), 1))
       ELSE eventsSet(evs, type, <<>>)
  ELSE evs

\* [...handlers] for handlers = events.get(type); nothing to iterate when
\* the Map does not hold the type
copyOf(evs, type) == IF type \in DOMAIN evs THEN evs[type] ELSE <<>>

\* handler(evt)
typedCall(handler, evt) == [handler |-> handler, args |-> <<evt>>]

\* Mutant of wildcardCall: the event alone is passed.
wildcardCall_eventOnly(handler, type, evt) ==
  [handler |-> handler, args |-> <<evt>>]

\* handler(type, evt)
wildcardCall(handler, type, evt) ==
  [handler |-> handler, args |-> <<type, evt>>]

NoCall == [op |-> "none", type |-> Omitted, handler |-> Omitted,
           evt |-> Omitted]

\* No object-based emitter was created.
IdleUnbind == unbinds = {} /\ log = <<>>

\* lazy was not called.
NoProperty == [kind |-> "none"]
IdleLazy ==
  /\ getter = <<>>
  /\ property = NoProperty
  /\ invocations = 0
  /\ returned = <<>>

IdleEmitter ==
  /\ events = <<>>
  /\ call = NoCall
  /\ handlers = <<>>
  /\ position = 0
  /\ calls = <<>>

\* Neither an emitter nor a lazy object was created.
IdleOthers == IdleEmitter /\ IdleUnbind /\ IdleLazy

(***************************************************************************)
(* Explored inputs.                                                        *)
(***************************************************************************)
CsvChars == {"a", Comma, Quote, LF, CR, Space}
Delimiters == {<<Comma>>, <<";">>}
Texts == SeqsUpTo(CsvChars, MaxLen)

IdleEscape == value = None /\ escaped = None
IdleCreate == data = <<>> /\ columns = <<>>
SetTokInit ==
  /\ i = 0
  /\ rows = <<>>
  /\ currentRow = <<>>
  /\ currentField = <<>>
  /\ inQuotes = FALSE

(***************************************************************************)
(* A call of escapeCSVValue.                                               *)
(***************************************************************************)
ValueChars == {"a", Comma, ";", Quote, LF, CR, Space}
EscapeDelimiters == {<<Comma>>, <<";">>, <<Space>>}
EscapeValues ==
  {Undefined, Null, Bool(TRUE), Bool(FALSE), Num(0), Num(42)}
    \cup {Str(s) : s \in SeqsUpTo(ValueChars, MaxValueLen)}

InitEscape ==
  /\ IdleOthers
  /\ value \in EscapeValues
  /\ escaped = None
  /\ IdleCreate
  /\ delimiter \in EscapeDelimiters
  /\ quoteAll \in BOOLEAN
  /\ addHeader = TRUE
  /\ trimValues = TRUE
  /\ csv = None
  /\ SetTokInit
  /\ result = <<>>
  /\ pc = "escape"

Escape ==
  /\ pc = "escape"
  /\ escaped' = escapeCSVValue(value, delimiter, quoteAll)
  /\ pc' = "done"
  /\ UNCHANGED <<emitterVars, unbindVars, lazyVars, value, createVars, optionVars, csv, loopVars, result>>

NextEscape == Escape

SpecEscape == InitEscape /\ [][NextEscape]_vars

(***************************************************************************)
(* parseCSV, one action per branch of the function.                        *)
(***************************************************************************)
InitParse ==
  /\ IdleOthers
  /\ IdleEscape
  /\ IdleCreate
  /\ csv \in {Undefined, Null} \cup {Str(s) : s \in Texts}
  /\ delimiter \in Delimiters
  /\ trimValues \in BOOLEAN
  /\ quoteAll = FALSE
  /\ addHeader = TRUE
  /\ SetTokInit
  /\ result = <<>>
  /\ pc = "parse"

\* if (!csv?.trim()) return []
ReturnEmpty ==
  /\ pc = "parse"
  /\ isBlankInput(csv)
  /\ result' = <<>>
  /\ pc' = "done"
  /\ UNCHANGED <<emitterVars, unbindVars, lazyVars, escapeVars, createVars, optionVars, csv, loopVars>>

\* The declarations before the loop.
EnterLoop ==
  /\ pc = "parse"
  /\ ~isBlankInput(csv)
  /\ SetTok(startState)
  /\ pc' = "loop"
  /\ UNCHANGED <<emitterVars, unbindVars, lazyVars, escapeVars, createVars, optionVars, csv, result>>

\* i < csv.length
InLoop == pc = "loop" /\ i < Len(csv.s)

\* One iteration of the loop body on the locals.
Advance ==
  /\ SetTok(loopBody(tok, csv.s, delimiter, trimValues))
  /\ UNCHANGED <<emitterVars, unbindVars, lazyVars, escapeVars, createVars, optionVars, csv, result, pc>>

\* char === '"', inQuotes && nextChar === '"'
EscapedQuote ==
  /\ InLoop
  /\ isEscapedQuote(tok, csv.s)
  /\ Advance

\* char === '"', otherwise
ToggleQuote ==
  /\ InLoop
  /\ isQuoteChar(tok, csv.s)
  /\ ~isEscapedQuote(tok, csv.s)
  /\ Advance

\* char === delimiter && !inQuotes
FieldDelimiter ==
  /\ InLoop
  /\ isFieldDelimiter(tok, csv.s, delimiter)
  /\ Advance

\* (char === '\n' || (char === '\r' && nextChar === '\n')) && !inQuotes
RowDelimiter ==
  /\ InLoop
  /\ isRowDelimiter(tok, csv.s, delimiter)
  /\ Advance

\* else
OtherChar ==
  /\ InLoop
  /\ ~isQuoteChar(tok, csv.s)
  /\ ~isFieldDelimiter(tok, csv.s, delimiter)
  /\ ~isRowDelimiter(tok, csv.s, delimiter)
  /\ Advance

\* After the loop: the final flush, the header-only check, the row objects.
Finish ==
  /\ pc = "loop"
  /\ i >= Len(csv.s)
  /\ rows' = flush(tok, trimValues)
  /\ result' = assemble(rows')
  /\ pc' = "done"
  /\ UNCHANGED <<emitterVars, unbindVars, lazyVars, escapeVars, createVars, optionVars, csv, i, currentRow,
                 currentField, inQuotes>>

NextParse ==
  \/ ReturnEmpty
  \/ EnterLoop
  \/ EscapedQuote
  \/ ToggleQuote
  \/ FieldDelimiter
  \/ RowDelimiter
  \/ OtherChar
  \/ Finish

SpecParse == InitParse /\ [][NextParse]_vars

(***************************************************************************)
(* createCSV followed by parseCSV on its text, both with the default       *)
(* options.                                                                *)
(***************************************************************************)
Keys == {<<"a">>, <<"b">>}
ColumnNames == Keys \cup {<<Space, "a">>}

\* The values a row holds under "a" and under "b".
ValuesA ==
  {Str(<<>>), Str(<<"a">>), Str(<<Space, "a">>), Str(<<Comma, Quote>>),
   Str(<<"a", CR, LF, "a">>), Null}
ValuesB == {Str(<<>>), Str(<<"b">>)}

RowObjects ==
  {[k \in Keys |-> IF k = <<"a">> THEN a ELSE b] : a \in ValuesA, b \in ValuesB}

Init ==
  /\ IdleOthers
  /\ IdleEscape
  /\ data \in SeqsUpTo(RowObjects, MaxRows)
  /\ columns \in SeqsUpTo(ColumnNames, MaxCols)
  /\ delimiter = <<Comma>>
  /\ quoteAll = FALSE
  /\ addHeader = TRUE
  /\ trimValues = TRUE
  /\ csv = None
  /\ SetTokInit
  /\ result = <<>>
  /\ pc = "create"

Create ==
  /\ pc = "create"
  /\ csv' = Str(createCSV(data, columns, delimiter, addHeader, quoteAll))
  /\ pc' = "parse"
  /\ UNCHANGED <<emitterVars, unbindVars, lazyVars, escapeVars, createVars, optionVars, loopVars, result>>

\* The whole call of parseCSV on the text.
Parse ==
  /\ pc = "parse"
  /\ IF isBlankInput(csv)
     THEN UNCHANGED loopVars
     ELSE LET t == tokenize(startState, csv.s, delimiter, trimValues)
          IN  SetTok([t EXCEPT !.rows = flush(t, trimValues)])
  /\ result' = parseCSV(csv, delimiter, trimValues)
  /\ pc' = "done"
  /\ UNCHANGED <<emitterVars, unbindVars, lazyVars, escapeVars, createVars, optionVars, csv>>

Next ==
  \/ Create
  \/ Parse

Spec == Init /\ [][Next]_vars

(***************************************************************************)
(* SpecExact: parseCSV(createCSV(data, columns, { delimiter, quoteAll }),  *)
(* { delimiter, trimValues: false }) over three delimiters and both        *)
(* quoteAll flags.                                                         *)
(***************************************************************************)
ExactDelimiters == {<<Comma>>, <<";">>, <<Space>>}

\* The property keys of a row: a plain name and a name that has to be quoted.
ExactKeys == {<<"a">>, <<Space, Quote>>}

\* The values a row holds under the first and under the second key.
ExactValuesA ==
  {Str(<<>>), Str(<<Space, "a", Space>>), Str(<<Comma, Quote>>),
   Str(<<"a", CR>>), Str(<<LF, ";", LF>>)}
ExactValuesB == {Str(<<Space>>), Str(<<"b">>)}

ExactRowObjects ==
  {[k \in ExactKeys |-> IF k = <<"a">> THEN a ELSE b] :
     a \in ExactValuesA, b \in ExactValuesB}

InitExact ==
  /\ IdleOthers
  /\ IdleEscape
  /\ data \in SeqsUpTo(ExactRowObjects, MaxRows)
  /\ columns \in SeqsUpTo(ExactKeys, MaxCols)
  /\ delimiter \in ExactDelimiters
  /\ quoteAll \in BOOLEAN
  /\ addHeader = TRUE
  /\ trimValues = FALSE
  /\ csv = None
  /\ SetTokInit
  /\ result = <<>>
  /\ pc = "create"

SpecExact == InitExact /\ [][Next]_vars

(***************************************************************************)
(* A call of createCSV with every combination of its options.              *)
(***************************************************************************)
CreateColumnNames ==
  {<<"a">>, <<"b">>, Constructor, <<Comma, ";">>, <<Quote, LF>>}

\* Row objects: without keys, with null and undefined values, with a key
\* left out, with texts that ask for quotes, with a number.
CreateRowObjects ==
  { [k \in {} |-> Null],
    [k \in Keys |-> IF k = <<"a">> THEN Null ELSE Str(<<"b">>)],
    [k \in {<<"a">>} |-> Undefined],
    [k \in Keys |-> IF k = <<"a">> THEN Str(<<"a", Comma, ";">>)
                                   ELSE Str(<<>>)],
    [k \in Keys |-> IF k = <<"a">> THEN Str(<<Quote, LF>>) ELSE Num(7)] }

InitCreate ==
  /\ IdleOthers
  /\ IdleEscape
  /\ data \in SeqsUpTo(CreateRowObjects, MaxRows)
  /\ columns \in SeqsUpTo(CreateColumnNames, MaxCols)
  /\ delimiter \in Delimiters
  /\ quoteAll \in BOOLEAN
  /\ addHeader \in BOOLEAN
  /\ trimValues = TRUE
  /\ csv = None
  /\ SetTokInit
  /\ result = <<>>
  /\ pc = "createCSV"

CreateCSV ==
  /\ pc = "createCSV"
  /\ csv' = Str(createCSV(data, columns, delimiter, addHeader, quoteAll))
  /\ pc' = "done"
  /\ UNCHANGED <<emitterVars, unbindVars, lazyVars, escapeVars, createVars, optionVars, loopVars, result>>

NextCreate == CreateCSV

SpecCreate == InitCreate /\ [][NextCreate]_vars

(***************************************************************************)
(* parseCSV on a text, then createCSV on the returned rows under the       *)
(* header names of the text, with the delimiter of the parser and the      *)
(* default addHeader and quoteAll.                                         *)
(***************************************************************************)
InitReparse ==
  /\ IdleOthers
  /\ IdleEscape
  /\ IdleCreate
  /\ csv \in {Str(s) : s \in Texts}
  /\ delimiter \in Delimiters
  /\ trimValues \in BOOLEAN
  /\ quoteAll = FALSE
  /\ addHeader = TRUE
  /\ SetTokInit
  /\ result = <<>>
  /\ pc = "parseText"

\* The whole call of parseCSV on the text.
ParseText ==
  /\ pc = "parseText"
  /\ IF isBlankInput(csv)
     THEN UNCHANGED loopVars
     ELSE LET t == tokenize(startState, csv.s, delimiter, trimValues)
          IN  SetTok([t EXCEPT !.rows = flush(t, trimValues)])
  /\ result' = parseCSV(csv, delimiter, trimValues)
  /\ pc' = "serialize"
  /\ UNCHANGED <<emitterVars, unbindVars, lazyVars, escapeVars, createVars, optionVars, csv>>

\* createCSV(parseCSV(text), headers, { delimiter }); the text it returns
\* takes the place of the parsed one.
Serialize ==
  /\ pc = "serialize"
  /\ data' = [r \in 1..Len(result) |->
               [k \in DOMAIN result[r] |-> Str(result[r][k])]]
  /\ columns' = (IF rows = <<>> THEN <<>> ELSE rows[1])
  /\ csv' = Str(createCSV(data', columns', delimiter, addHeader, quoteAll))
  /\ pc' = "done"
  /\ UNCHANGED <<emitterVars, unbindVars, lazyVars, escapeVars, optionVars, loopVars, result>>

NextReparse ==
  \/ ParseText
  \/ Serialize

SpecReparse == InitReparse /\ [][NextReparse]_vars

(***************************************************************************)
(* An emitter: calls of on, off and emit, one after the other; emit runs   *)
(* handler by handler.  Handlers record their invocation and do nothing    *)
(* else.                                                                   *)
(***************************************************************************)
\* 'foo' and 'FOO' differ in case only; Symbol(foo) is a symbol whose
\* description is foo.
EventTypes == {"foo", "FOO", "Symbol(foo)"}
Types == EventTypes \cup {Star}
Handlers == {"a", "b"}
Evts == {"ea", Omitted}

\* The Maps handed to createEmitter: none (a new Map), and Maps that hold
\* handler lists already.
InitialMaps ==
  { <<>>,
    [key \in {"foo"} |-> <<"a", "b">>],
    [key \in {"foo", Star} |-> IF key = Star THEN <<"b">> ELSE <<"a">>] }

IdleCSV ==
  /\ IdleEscape
  /\ IdleCreate
  /\ delimiter = <<Comma>>
  /\ quoteAll = FALSE
  /\ addHeader = TRUE
  /\ trimValues = TRUE
  /\ csv = None
  /\ SetTokInit
  /\ result = <<>>

\* Number of handlers the Map holds.
RECURSIVE registered(_, _)
registered(evs, keys) ==
  IF keys = {} THEN 0
  ELSE LET key == CHOOSE x \in keys : TRUE
       IN  Len(evs[key]) + registered(evs, keys \ {key})

InitEmitter ==
  /\ IdleCSV
  /\ IdleUnbind
  /\ IdleLazy
  /\ events \in InitialMaps
  /\ call = NoCall
  /\ handlers = <<>>
  /\ position = 0
  /\ calls = <<>>
  /\ pc = "idle"

On ==
  /\ pc = "idle"
  /\ registered(events, DOMAIN events) < MaxHandlers
  /\ \E type \in Types, handler \in Handlers :
       /\ events' = on(events, type, handler)
       /\ call' = [op |-> "on", type |-> type, handler |-> handler,
                   evt |-> Omitted]
  /\ calls' = <<>>
  /\ UNCHANGED <<csvVars, unbindVars, lazyVars, handlers, position, pc>>

Off ==
  /\ pc = "idle"
  /\ \E type \in Types, handler \in Handlers \cup {Omitted} :
       /\ events' = off(events, type, handler)
       /\ call' = [op |-> "off", type |-> type, handler |-> handler,
                   evt |-> Omitted]
  /\ calls' = <<>>
  /\ UNCHANGED <<csvVars, unbindVars, lazyVars, handlers, position, pc>>

\* emit(type, evt) up to the first loop: handlers = events.get(type)
Emit ==
  /\ pc = "idle"
  /\ \E type \in Types, evt \in Evts :
       /\ call' = [op |-> "emit", type |-> type, handler |-> Omitted,
                   evt |-> evt]
       /\ handlers' = copyOf(events, type)
  /\ position' = 0
  /\ calls' = <<>>
  /\ pc' = "typed"
  /\ UNCHANGED <<csvVars, unbindVars, lazyVars, events>>

\* handler(evt!) for the next handler of the copy
InvokeHandler ==
  /\ pc = "typed"
  /\ position < Len(handlers)
  /\ calls' = Append(calls,
                     typedCall(handlers[position + 1], call.evt))
  /\ position' = position + 1
  /\ UNCHANGED <<csvVars, unbindVars, lazyVars, events, call, handlers, pc>>

\* handlers = events.get('*')
GetWildcards ==
  /\ pc = "typed"
  /\ position >= Len(handlers)
  /\ handlers' = copyOf(events, Star)
  /\ position' = 0
  /\ pc' = "wildcard"
  /\ UNCHANGED <<csvVars, unbindVars, lazyVars, events, call, calls>>

\* handler(type, evt!) for the next handler of the copy
InvokeWildcard ==
  /\ pc = "wildcard"
  /\ position < Len(handlers)
  /\ calls' = Append(calls,
                     wildcardCall(handlers[position + 1], call.type,
                                  call.evt))
  /\ position' = position + 1
  /\ UNCHANGED <<csvVars, unbindVars, lazyVars, events, call, handlers, pc>>

\* emit returns; its locals are gone.
Return ==
  /\ pc = "wildcard"
  /\ position >= Len(handlers)
  /\ handlers' = <<>>
  /\ position' = 0
  /\ pc' = "idle"
  /\ UNCHANGED <<csvVars, unbindVars, lazyVars, events, call, calls>>

NextEmitter ==
  \/ On
  \/ Off
  \/ Emit
  \/ InvokeHandler
  \/ GetWildcards
  \/ InvokeWildcard
  \/ Return

SpecEmitter == InitEmitter /\ [][NextEmitter]_vars

(***************************************************************************)
(* SpecUnbind: the object-based emitter, its events object being the       *)
(* variable events: calls of on, of the unbind functions on returned, and  *)
(* of emit, with listeners that do not call the emitter themselves.        *)
(***************************************************************************)
EventNames == {"tick", "tock"}
Callbacks == {"a", "b"}

\* The arguments of emit after the event name.
ArgLists == {<<>>, <<"x">>}

\* obj[key] = v
assign(obj, key, v) ==
  [k \in DOMAIN obj \cup {key} |-> IF k = key THEN v ELSE obj[k]]

\* (this.events[event] ||= []).push(cb)
push(evs, event, cb) ==
  IF event \in DOMAIN evs
  THEN assign(evs, event, Append(evs[event], cb))
  ELSE assign(evs, event, <<cb>>)

\* Mutant of unbind: only the first occurrence of cb is taken out.
unbind_firstOnly(evs, event, cb) ==
  IF event \in DOMAIN evs
  THEN assign(evs, event, splice(evs[event],
                                 ToUint32(indexOf(evs[event], cb)), 1))
  ELSE evs

\* this.events[event] = this.events[event]?.filter(i => cb !== i)
unbind(evs, event, cb) ==
  IF event \in DOMAIN evs
  THEN assign(evs, event, SelectSeq(evs[event], LAMBDA x : cb # x))
  ELSE evs

\* The invocations emit(event, ...args) makes: callbacks[i](...args) for
\* every i below the length of this.events[event] || []
invoked(evs, event, args) ==
  LET callbacks == IF event \in DOMAIN evs THEN evs[event] ELSE <<>>
  IN  [x \in 1..Len(callbacks) |-> [cb |-> callbacks[x], args |-> args]]

InitUnbind ==
  /\ IdleCSV
  /\ IdleOthers
  /\ pc = "object"

\* on(event, cb): the listener is pushed and an unbind function returned.
ObjectOn ==
  /\ pc = "object"
  /\ Len(log) < MaxOps
  /\ \E event \in EventNames, cb \in Callbacks :
       /\ events' = push(events, event, cb)
       /\ unbinds' = unbinds \cup {[event |-> event, cb |-> cb]}
       /\ log' = Append(log, [op |-> "on", event |-> event, cb |-> cb,
                              invoked |-> <<>>])
  /\ UNCHANGED <<csvVars, lazyVars, call, handlers, position, calls, pc>>

\* A call of an unbind function that on has returned.
Unbind ==
  /\ pc = "object"
  /\ Len(log) < MaxOps
  /\ \E u \in unbinds :
       /\ events' = unbind(events, u.event, u.cb)
       /\ log' = Append(log, [op |-> "unbind", event |-> u.event,
                              cb |-> u.cb, invoked |-> <<>>])
  /\ UNCHANGED <<csvVars, lazyVars, call, handlers, position, calls,
                 unbinds, pc>>

\* emit(event, ...args)
ObjectEmit ==
  /\ pc = "object"
  /\ Len(log) < MaxOps
  /\ \E event \in EventNames, args \in ArgLists :
       log' = Append(log, [op |-> "emit", event |-> event, cb |-> Omitted,
                           invoked |-> invoked(events, event, args)])
  /\ UNCHANGED <<csvVars, lazyVars, emitterVars, unbinds, pc>>

NextUnbind ==
  \/ ObjectOn
  \/ Unbind
  \/ ObjectEmit

SpecUnbind == InitUnbind /\ [][NextUnbind]_vars

(***************************************************************************)
(* SpecLazy: lazy(getter) and the accesses to the value property of the    *)
(* object it returns.                                                      *)
(***************************************************************************)
\* The getter throws instead of returning.
Throws == [t |-> "throws"]

\* What one invocation of the getter does.
Outcomes == {Str(<<"a">>), Str(<<"b">>), Undefined, Throws}

\* A getter, as what its first, second, ... invocation does.
Getters == [1..MaxAccesses -> Outcomes]

\* get value() { ... } of the object literal: an accessor property
Accessor == [kind |-> "accessor"]

\* Mutant of defineProperty: the property stays as it is.
defineProperty_ignored(prop, v) == prop

\* Object.defineProperty(this, 'value', { value }): value becomes a data
\* property that holds v
defineProperty(prop, v) == [kind |-> "data", value |-> v]

InitLazy ==
  /\ IdleCSV
  /\ IdleEmitter
  /\ IdleUnbind
  /\ getter \in Getters
  /\ property = Accessor
  /\ invocations = 0
  /\ returned = <<>>
  /\ pc = "lazy"

\* One read of the value property of the object.
Access ==
  /\ pc = "lazy"
  /\ Len(returned) < MaxAccesses
  /\ IF property.kind = "accessor"
     THEN LET outcome == getter[invocations + 1]
          IN  /\ invocations' = invocations + 1
              /\ returned' = Append(returned, outcome)
              /\ IF outcome.t = "throws"
                 THEN property' = property
                 ELSE property' = defineProperty(property, outcome)
     ELSE /\ invocations' = invocations
          /\ returned' = Append(returned, property.value)
          /\ property' = property
  /\ UNCHANGED <<csvVars, emitterVars, unbindVars, getter, pc>>

NextLazy ==
  \/ Access

SpecLazy == InitLazy /\ [][NextLazy]_vars

(***************************************************************************)
(* SpecSnapshot: the Map-based emitter with handlers that call on or off   *)
(* for the emitted type while emit is iterating.                           *)
(***************************************************************************)
\* What the body of a handler does when it is invoked: nothing,
\* on(type, handler), off(type, handler) or off(type).
Bodies ==
  {body \in [op : {"none", "on", "off"}, handler : Handlers \cup {Omitted}] :
     /\ body.op = "on" => body.handler # Omitted
     /\ body.op = "none" => body.handler = Omitted}

\* The Map after the body of a handler has run for the emitted type.
runBody(body, evs, type) ==
  IF body.op = "on" THEN on(evs, type, body.handler)
  ELSE IF body.op = "off" THEN off(evs, type, body.handler)
  ELSE evs

\* Mutant of nextHandler: the loop reads the list the Map holds now.
nextHandler_live(copy, evs, type, n) ==
  IF type \in DOMAIN evs /\ n + 1 <= Len(evs[type])
  THEN evs[type][n + 1]
  ELSE copy[n + 1]

\* for (const handler of [...handlers]): the next handler is taken from the
\* copy made before the first invocation
nextHandler(copy, evs, type, n) ==
  copy[n + 1]

\* handler(evt!) for the next handler of the copy; the handler calls on or
\* off for the type, or nothing.
InvokeReentrant ==
  /\ pc = "typed"
  /\ position < Len(handlers)
  /\ calls' = Append(calls,
                     typedCall(nextHandler(handlers, events, call.type,
                                           position),
                               call.evt))
  /\ position' = position + 1
  /\ \E body \in Bodies :
       /\ body.op = "on" => registered(events, DOMAIN events) < MaxHandlers
       /\ events' = runBody(body, events, call.type)
  /\ UNCHANGED <<csvVars, unbindVars, lazyVars, call, handlers, pc>>

NextSnapshot ==
  \/ On
  \/ Off
  \/ Emit
  \/ InvokeReentrant
  \/ GetWildcards
  \/ InvokeWildcard
  \/ Return

SpecSnapshot == InitEmitter /\ [][NextSnapshot]_vars

\* The loop and the closed form of the tokenizer agree.
ParseAgrees ==
  pc = "done" => result = parseCSV(csv, delimiter, trimValues)

\* The parts with the separator between each two of them.
RECURSIVE Glue(_, _)
Glue(parts, sep) ==
  IF Len(parts) = 0 THEN <<>>
  ELSE IF Len(parts) = 1 THEN parts[1]
  ELSE Glue(SubSeq(parts, 1, Len(parts) - 1), sep) \o sep
         \o parts[Len(parts)]

(***************************************************************************)
(* Properties of escapeCSVValue.                                           *)
(***************************************************************************)
\* The text starts and ends with a quote character of its own.
Wrapped(s) == Len(s) >= 2 /\ s[1] = Quote /\ s[Len(s)] = Quote

\* Every doubled quote replaced by a single one, left to right.
RECURSIVE Undouble(_)
Undouble(s) ==
  IF Len(s) >= 2 /\ s[1] = Quote /\ s[2] = Quote
  THEN <<Quote>> \o Undouble(SubSeq(s, 3, Len(s)))
  ELSE IF s = <<>> THEN <<>>
  ELSE <<Head(s)>> \o Undouble(Tail(s))

\* Strip the outer quote pair if present, then undouble.
Unescape(s) ==
  Undouble(IF Wrapped(s) THEN SubSeq(s, 2, Len(s) - 1) ELSE s)

EscapedNonNull == pc = "done" /\ value # None /\ ~IsNullish(value)

\* The value's text holds the delimiter, a quote, a line feed or a
\* carriage return.
HasSpecialChar ==
  Range(StringOf(value)) \cap (Range(delimiter) \cup {Quote, LF, CR}) # {}

\* C3: a non-null value is returned wrapped in quotes exactly when quoteAll
\* is set or its text holds the delimiter, a quote, \n or \r; otherwise its
\* text is returned unchanged.
C3_QuotingNecessity ==
  EscapedNonNull =>
    /\ Wrapped(escaped) <=> (quoteAll \/ HasSpecialChar)
    /\ ~(quoteAll \/ HasSpecialChar) => escaped = StringOf(value)

\* A value quoted only because of a carriage return, and one left as it is.
C3_Witness ==
  /\ EscapedNonNull
  /\ ~quoteAll
  /\ Range(StringOf(value)) = {"a", CR}
  /\ Wrapped(escaped)

\* C4: stripping the outer quote pair of the escaped text, if present, and
\* undoubling its quotes gives back the coerced text of the value.
C4_EscapeInvertible ==
  EscapedNonNull => Unescape(escaped) = StringOf(value)

\* A value with two quotes in a row has been escaped.
C4_Witness ==
  /\ EscapedNonNull
  /\ value.t = "string"
  /\ Includes(value.s, <<Quote, Quote>>)
  /\ Len(escaped) = Len(value.s) + 2 + Cardinality({x \in 1..Len(value.s) : value.s[x] = Quote})

(***************************************************************************)
(* Properties of parseCSV.                                                 *)
(***************************************************************************)
WhiteSpaceChars == {Space, LF, CR, "\t"}

\* Every field text of the row is empty or whitespace-only.
IsBlankRow(row) ==
  \A f \in 1..Len(row) : Range(row[f]) \subseteq WhiteSpaceChars

NotBlankRow(row) == ~IsBlankRow(row)

\* The call has returned after tokenizing at least a header and a data row.
Assembled == pc = "done" /\ csv # None /\ Len(rows) >= 2

\* The parsed rows after the first that are not blank, in input order.
KeptRows == SelectSeq(Tail(rows), NotBlankRow)

\* Field x of a data row, the empty string when the row is too short.
FieldOrEmpty(row, x) == IF x <= Len(row) THEN row[x] ELSE <<>>

\* No later position of the header carries the name of position x.
IsLastPosition(headers, x) ==
  \A y \in (x + 1)..Len(headers) : headers[y] # headers[x]

\* C5 as stated: every returned row object has exactly len(header) keys.
C5_Original ==
  Assembled =>
    \A r \in 1..Len(result) : Cardinality(DOMAIN result[r]) = Len(rows[1])

\* C5: every returned row object has exactly the distinct names of the
\* header (the first parsed row) as its keys, len(header) keys when the names
\* are pairwise distinct, however many raw fields the data row had.
C5_HeaderDefinesArity ==
  Assembled =>
    \A r \in 1..Len(result) :
      /\ DOMAIN result[r] = Range(rows[1])
      /\ Cardinality(DOMAIN result[r]) = Cardinality(Range(rows[1]))
      /\ (\A x, y \in 1..Len(rows[1]) : x # y => rows[1][x] # rows[1][y])
           => Cardinality(DOMAIN result[r]) = Len(rows[1])

\* A data row shorter than a header of two distinct names was returned.
C5_Witness ==
  /\ Assembled
  /\ Len(rows) = 2
  /\ Len(rows[1]) = 2
  /\ rows[1][1] # rows[1][2]
  /\ Len(rows[2]) = 1
  /\ Len(result) = 1
  /\ Cardinality(DOMAIN result[1]) = 2

\* Between the rise of an unclosed quote and the end of the text.
Unterminated ==
  /\ pc = "loop"
  /\ inQuotes
  /\ \A p \in (i + 1)..Len(csv.s) : csv.s[p] # Quote

\* The step appends the current character to the open field and closes
\* nothing.
Swallows ==
  /\ i < Len(csv.s)
  /\ pc' = "loop"
  /\ inQuotes'
  /\ i' = i + 1
  /\ currentField' = Append(currentField, csv.s[i + 1])
  /\ currentRow' = currentRow
  /\ rows' = rows

\* The step is the return: the one open field and row are flushed and
\* nothing else is closed.
ReturnsAfterFlush ==
  /\ i >= Len(csv.s)
  /\ pc' = "done"
  /\ inQuotes'
  /\ rows' = IF currentField # <<>> \/ currentRow # <<>>
             THEN Append(rows, Append(currentRow,
                                      IF trimValues THEN Trim(currentField)
                                      ELSE currentField))
             ELSE rows

\* C6: once the tokenizer is in the quoted state and no quote follows, it
\* stays there, every following character (delimiter and line breaks
\* included) goes to the one open field, no field or row is closed before
\* the end of the text, and the call returns normally.
C6_UnterminatedQuote ==
  [][Unterminated => (Swallows \/ ReturnsAfterFlush)]_vars

\* The call returned in the quoted state with a delimiter and a line feed
\* swallowed by the open field.
C6_Witness ==
  /\ pc = "done"
  /\ csv # None
  /\ inQuotes
  /\ delimiter = <<Comma>>
  /\ {Comma, LF} \subseteq Range(currentField)
  /\ Len(rows) = 1
  /\ result = <<>>

\* Position r of the not-blank data rows, as an index of Tail(rows).
KeptIndex(r) ==
  CHOOSE k \in 1..Len(Tail(rows)) :
    /\ ~IsBlankRow(Tail(rows)[k])
    /\ Cardinality({j \in 1..(k - 1) : ~IsBlankRow(Tail(rows)[j])}) = r - 1

\* C7: for either trimValues setting the blank rows after the first parsed
\* row are absent from the result, the others are returned in input order,
\* and the first parsed row is the header even when it is blank.
C7_BlankRowElision ==
  Assembled =>
    /\ Len(result) = Cardinality({k \in 1..Len(Tail(rows)) :
                                    ~IsBlankRow(Tail(rows)[k])})
    /\ \A r \in 1..Len(result) :
         /\ DOMAIN result[r] = Range(rows[1])
         /\ result[r] = rowObject(rows[1], Tail(rows)[KeptIndex(r)])

\* Without trimming, a row of one space between the header and a data row
\* was dropped.
C7_Witness ==
  /\ Assembled
  /\ ~trimValues
  /\ Len(rows) = 3
  /\ rows[2] = <<<<Space>>>>
  /\ ~IsBlankRow(rows[3])
  /\ Len(result) = 1

\* A blank header row was kept as the header.
C7_WitnessBlankHeader ==
  /\ Assembled
  /\ IsBlankRow(rows[1])
  /\ Len(result) = 1
  /\ DOMAIN result[1] = {<<>>}

\* The text is undefined, null, empty or whitespace-only.
IsEmptyText ==
  IF csv \in {Undefined, Null} THEN TRUE
  ELSE Range(csv.s) \subseteq WhiteSpaceChars

\* C8: parseCSV never raises: every call runs to its return; the return is
\* the empty list for an undefined, null, empty or whitespace-only text and
\* for a text with only a header row.
C8_Total ==
  csv # None =>
    /\ pc # "done" => ENABLED NextParse
    /\ pc = "done" =>
         /\ IsEmptyText => result = <<>>
         /\ (csv \notin {Undefined, Null} /\ LF \notin Range(csv.s))
              => result = <<>>
         /\ Len(rows) <= 1 => result = <<>>

\* A header-only text with two names has returned the empty list.
C8_Witness ==
  /\ pc = "done"
  /\ csv # None
  /\ ~IsEmptyText
  /\ Len(rows) = 1
  /\ Len(rows[1]) = 2
  /\ result = <<>>

\* A whitespace-only text of several lines has returned the empty list.
C8_WitnessBlank ==
  /\ pc = "done"
  /\ csv \notin {None, Undefined, Null}
  /\ IsEmptyText
  /\ {CR, LF} \subseteq Range(csv.s)
  /\ result = <<>>

\* C9 as stated: header name x maps to field x of the data row (the empty
\* string when the row is too short), extra fields do not appear.
C9_Original ==
  Assembled /\ Len(result) = Len(KeptRows) =>
    \A r \in 1..Len(result) :
      /\ DOMAIN result[r] = Range(rows[1])
      /\ \A x \in 1..Len(rows[1]) :
           result[r][rows[1][x]] = FieldOrEmpty(KeptRows[r], x)

\* C9: header name x maps to field x of the data row unless a later header
\* position carries the same name; a missing trailing field maps to the
\* empty string and the fields beyond the header appear under no key.
C9_ShortAndLongRows ==
  Assembled =>
    /\ Len(result) = Len(KeptRows)
    /\ \A r \in 1..Len(result) :
         /\ DOMAIN result[r] = Range(rows[1])
         /\ \A x \in 1..Len(rows[1]) :
              IsLastPosition(rows[1], x) =>
                result[r][rows[1][x]] = FieldOrEmpty(KeptRows[r], x)

\* A data row with one field under a header of two distinct names.
C9_Witness ==
  /\ Assembled
  /\ Len(rows[1]) = 2
  /\ rows[1][1] # rows[1][2]
  /\ Len(result) = 1
  /\ Len(KeptRows[1]) = 1
  /\ result[1][rows[1][1]] = <<"a">>
  /\ result[1][rows[1][2]] = <<>>

\* A data row with two fields under a header of one name.
C9_WitnessLong ==
  /\ Assembled
  /\ Len(rows[1]) = 1
  /\ Len(result) = 1
  /\ Len(KeptRows[1]) = 2
  /\ KeptRows[1][2] # <<>>

\* The positions of the text that lie outside quotes: an even number of
\* quote characters precedes them.
Unquoted(s, p) ==
  Cardinality({x \in 1..(p - 1) : s[x] = Quote}) % 2 = 0

\* The line feeds that end a row on their own.
BareLineFeeds(s) ==
  {p \in 1..Len(s) :
     /\ s[p] = LF
     /\ p = 1 \/ s[p - 1] # CR
     /\ Unquoted(s, p)}

\* The text with the line feeds at the positions of S replaced by \r\n.
RECURSIVE WithCRLF(_, _, _)
WithCRLF(s, S, p) ==
  IF p > Len(s) THEN <<>>
  ELSE (IF p \in S THEN <<CR, LF>> ELSE <<s[p]>>) \o WithCRLF(s, S, p + 1)

LineBreaksUnquoted(s) ==
  \A p \in 1..Len(s) : s[p] \in {LF, CR} => Unquoted(s, p)

\* C10: when every line break of the text lies outside quotes, replacing
\* any subset of its \n row terminators by \r\n leaves the result unchanged.
C10_LineEndingIndependence ==
  (pc = "done" /\ csv \notin {None, Undefined, Null}
     /\ LineBreaksUnquoted(csv.s)) =>
    \A S \in SUBSET BareLineFeeds(csv.s) :
      parseCSV(Str(WithCRLF(csv.s, S, 1)), delimiter, trimValues) = result

\* A text of three lines, ended by line feeds, has returned two rows.
C10_Witness ==
  /\ pc = "done"
  /\ csv \notin {None, Undefined, Null}
  /\ LineBreaksUnquoted(csv.s)
  /\ Cardinality(BareLineFeeds(csv.s)) = 2
  /\ ~trimValues
  /\ Len(result) = 2

\* The text without its leading and trailing whitespace.
Stripped(s) ==
  LET inner == {k \in 1..Len(s) : s[k] \notin WhiteSpaceChars}
  IN  IF inner = {} THEN <<>>
      ELSE SubSeq(s, CHOOSE k \in inner : \A m \in inner : k <= m,
                     CHOOSE k \in inner : \A m \in inner : k >= m)

\* What is to be stored for the accumulated text of a field.
ExpectedStored(s) == IF trimValues THEN Stripped(s) ELSE s

\* C14: whenever parseCSV stores a field (at a delimiter, at a line break,
\* at the end of the text; header row included) the stored text is the
\* accumulated field text without its leading and trailing whitespace when
\* trimValues is set and the accumulated text unchanged otherwise, whether
\* or not the field was written in quotes.
C14_TrimPolicy ==
  [][/\ (pc = "loop" /\ Len(currentRow') = Len(currentRow) + 1) =>
          currentRow' = currentRow \o <<ExpectedStored(currentField)>>
     /\ (pc = "loop" /\ Len(rows') = Len(rows) + 1) =>
          rows' = rows \o <<currentRow \o <<ExpectedStored(currentField)>>>>
    ]_vars

\* With trimValues, a quoted field with a leading space under the header a.
C14_Witness ==
  /\ pc = "done"
  /\ trimValues
  /\ csv = Str(<<"a", LF, Quote, Space, "a">>)
  /\ rows = <<<<<<"a">>>>, <<<<"a">>>>>>
  /\ result = <<[k \in {<<"a">>} |-> <<"a">>]>>

\* Without trimValues, an unquoted field keeps its spaces.
C14_WitnessUntrimmed ==
  /\ pc = "done"
  /\ ~trimValues
  /\ csv = Str(<<"a", LF, Space, "a", Space>>)
  /\ result = <<[k \in {<<"a">>} |-> <<Space, "a", Space>>]>>

\* The last position of the header that carries the name.
LastPosition(headers, name) ==
  CHOOSE x \in 1..Len(headers) :
    /\ headers[x] = name
    /\ \A y \in 1..Len(headers) : headers[y] = name => y <= x

IsRepeated(headers, x) ==
  \E y \in 1..Len(headers) : y # x /\ headers[y] = headers[x]

\* C16: when a name stands at several positions of the header row, every
\* returned row object maps the name to the field of the data row at the
\* last of these positions (the empty string when the row ends before it).
C16_DuplicateHeaders ==
  (Assembled /\ Len(result) = Len(KeptRows)) =>
    \A r \in 1..Len(result) : \A x \in 1..Len(rows[1]) :
      IsRepeated(rows[1], x) =>
        result[r][rows[1][x]] =
          FieldOrEmpty(KeptRows[r], LastPosition(rows[1], rows[1][x]))

\* The header holds the empty name twice; the data row holds an empty first
\* and a non-empty second field.
C16_Witness ==
  /\ Assembled
  /\ Len(rows[1]) = 2
  /\ rows[1][1] = rows[1][2]
  /\ Len(result) = 1
  /\ Len(KeptRows[1]) = 2
  /\ KeptRows[1][1] = <<>>
  /\ KeptRows[1][2] = <<"a">>
  /\ result[1][rows[1][1]] = <<"a">>

\* A step of the loop: the character at i is consumed.
LoopStep == pc = "loop" /\ pc' = "loop" /\ i < Len(csv.s)

\* The step after the loop.
FinishStep == pc = "loop" /\ pc' = "done"

\* The character at i and whether a quote, a line feed follows it.
CharHere == csv.s[i + 1]
QuoteFollows == i + 2 <= Len(csv.s) /\ csv.s[i + 2] = Quote
LineFeedFollows == i + 2 <= Len(csv.s) /\ csv.s[i + 2] = LF

\* C23: in the quoted state a delimiter, \n or \r is appended to the
\* current field as it is and closes neither a field nor a row; whenever a
\* character closes a field or a row the tokenizer is in the unquoted
\* state.
C23_QuotedKeepsSeparators ==
  [][LoopStep =>
       /\ (inQuotes /\ CharHere \in (Range(delimiter) \cup {LF, CR})) =>
            /\ currentField' = Append(currentField, CharHere)
            /\ currentRow' = currentRow
            /\ rows' = rows
            /\ inQuotes'
            /\ i' = i + 1
       /\ (currentRow' # currentRow \/ rows' # rows) => ~inQuotes
    ]_vars

\* One quoted field that holds a line feed, the delimiter and another line
\* feed.
C23_Witness ==
  /\ pc = "done"
  /\ ~trimValues
  /\ delimiter = <<Comma>>
  /\ csv = Str(<<Quote, LF, Comma, LF, Quote>>)
  /\ rows = <<<<<<LF, Comma, LF>>>>>>

\* C24: a quote in the quoted state with a quote right behind it appends
\* one quote to the field, consumes both and stays quoted; any other quote
\* switches the state, consumes itself and leaves the field alone.  No quote
\* closes a field or a row.
C24_EscapedQuote ==
  [][(LoopStep /\ CharHere = Quote) =>
       /\ IF inQuotes /\ QuoteFollows
          THEN /\ currentField' = Append(currentField, Quote)
               /\ i' = i + 2
               /\ inQuotes'
          ELSE /\ currentField' = currentField
               /\ i' = i + 1
               /\ inQuotes' = ~inQuotes
       /\ currentRow' = currentRow
       /\ rows' = rows
    ]_vars

\* An opening quote, a doubled quote, a letter and the closing quote.
C24_Witness ==
  /\ pc = "done"
  /\ csv = Str(<<Quote, Quote, Quote, "a", Quote>>)
  /\ ~inQuotes
  /\ rows = <<<<<<Quote, "a">>>>>>

\* C25: at the end of the text a non-empty current field, or a current row
\* that holds a field, is closed into a last row, which is returned (as the
\* last row object when it is a data row and not blank); nothing is added
\* otherwise, as when the text ends right after a row terminator.
C25_EndOfInputFlush ==
  [][FinishStep =>
       /\ IF currentField # <<>> \/ currentRow # <<>>
          THEN LET last == Append(currentRow, ExpectedStored(currentField))
               IN  /\ rows' = Append(rows, last)
                   /\ (rows # <<>> /\ NotBlankRow(last)) =>
                        /\ result' # <<>>
                        /\ \A x \in 1..Len(rows'[1]) :
                             IsLastPosition(rows'[1], x) =>
                               result'[Len(result')][rows'[1][x]]
                                 = FieldOrEmpty(last, x)
          ELSE rows' = rows
       /\ (~inQuotes /\ csv.s[Len(csv.s)] = LF) => rows' = rows
    ]_vars

\* The last row a,a ends with the text and is returned.
C25_Witness ==
  /\ pc = "done"
  /\ csv = Str(<<"a", LF, "a", Comma, "a">>)
  /\ delimiter = <<Comma>>
  /\ Len(rows) = 2
  /\ rows[2] = <<<<"a">>, <<"a">>>>
  /\ Len(result) = 1

\* The text ends right after a row terminator: two rows, not three.
C25_WitnessTerminated ==
  /\ pc = "done"
  /\ csv = Str(<<"a", LF, "a", CR, LF>>)
  /\ Len(rows) = 2
  /\ Len(result) = 1

\* C26: in the unquoted state a \r without a \n right behind it is appended
\* to the current field and closes no row; a text without \n outside quotes
\* is parsed as at most one row, which is the header, so no row object is
\* returned.
C26_LoneCarriageReturn ==
  [][/\ (LoopStep /\ ~inQuotes /\ CharHere = CR /\ ~LineFeedFollows) =>
          /\ currentField' = Append(currentField, CR)
          /\ currentRow' = currentRow
          /\ rows' = rows
          /\ i' = i + 1
          /\ ~inQuotes'
     /\ (pc' = "done" /\ csv.t = "string" /\ LF \notin Range(csv.s)) =>
          (Len(rows') <= 1 /\ result' = <<>>)
    ]_vars

\* Three letters separated by \r alone: one row of one field.
C26_Witness ==
  /\ pc = "done"
  /\ ~trimValues
  /\ csv = Str(<<"a", CR, "a", CR, "a">>)
  /\ rows = <<<<<<"a", CR, "a", CR, "a">>>>>>
  /\ result = <<>>

\* The text starts with a row terminator.
StartsWithTerminator ==
  /\ csv.t = "string"
  /\ Len(csv.s) >= 1
  /\ \/ csv.s[1] = LF
     \/ Len(csv.s) >= 2 /\ csv.s[1] = CR /\ csv.s[2] = LF

\* C28: for a text that is not blank and starts with a row terminator the
\* header is the single empty name, and every later row that is not blank is
\* returned as an object whose only key is the empty name, mapped to the
\* first field of the row.
C28_LeadingBlankLine ==
  (pc = "done" /\ StartsWithTerminator /\ ~isBlankInput(csv)) =>
    /\ rows # <<>>
    /\ rows[1] = <<<<>>>>
    /\ Len(result) = Len(KeptRows)
    /\ \A r \in 1..Len(result) :
         /\ DOMAIN result[r] = {<<>>}
         /\ result[r][<<>>] = KeptRows[r][1]

\* A blank line, then the line a, and the line a: both come back under the
\* empty name.
C28_Witness ==
  /\ pc = "done"
  /\ csv = Str(<<LF, "a", Comma, LF, "a">>)
  /\ delimiter = <<Comma>>
  /\ Len(result) = 2
  /\ result[1] = result[2]
  /\ result[1][<<>>] = <<"a">>

(***************************************************************************)
(* Properties of parseCSV followed by createCSV.                           *)
(***************************************************************************)
\* createCSV has returned; rows holds the parsed rows of the first text and
\* csv the text written from them.
ReparseDone ==
  pc = "done" /\ value = None /\ Len(data) = Len(result) /\ csv # None

\* No parsed field holds the delimiter, a quote, \n or \r.
NoFieldNeedsQuoting ==
  \A r \in 1..Len(rows) : \A x \in 1..Len(rows[r]) :
    Range(rows[r][x]) \cap (Range(delimiter) \cup {Quote, LF, CR}) = {}

\* The row content of the parsed text: the header, then the data rows that
\* are not blank.
RowContent == IF rows = <<>> THEN <<>> ELSE <<rows[1]>> \o KeptRows

\* A row with empty fields added up to n fields.
PadTo(row, n) ==
  [x \in 1..(IF Len(row) < n THEN n ELSE Len(row)) |-> FieldOrEmpty(row, x)]

\* A row padded or cut to exactly n fields.
FitTo(row, n) == [x \in 1..n |-> FieldOrEmpty(row, x)]

DistinctHeaderNames ==
  rows # <<>> =>
    \A x, y \in 1..Len(rows[1]) : x # y => rows[1][x] # rows[1][y]

\* C15 as stated: when no field requires quoting, the text written from
\* the parsed rows under the header names holds the header names and every
\* field value of every data row of the text, in the same order (a blank
\* row left out, a missing trailing field written as empty).
C15_Original ==
  (ReparseDone /\ NoFieldNeedsQuoting) =>
    csv.s = Glue([r \in 1..Len(RowContent) |->
                    Glue(PadTo(RowContent[r], Len(rows[1])), delimiter)],
                 <<LF>>)

\* C15: when no field requires quoting and the header names are pairwise
\* distinct, the text written from the parsed rows under the header names
\* holds the header names and, for every data row that is not blank, its
\* field values in the same order, padded with empty fields or cut to the
\* length of the header.
C15_ParseThenSerialize ==
  (ReparseDone /\ NoFieldNeedsQuoting /\ DistinctHeaderNames) =>
    csv.s = Glue([r \in 1..Len(RowContent) |->
                    Glue(FitTo(RowContent[r], Len(rows[1])), delimiter)],
                 <<LF>>)

\* A header of two distinct names and a data row have been written again.
C15_Witness ==
  /\ ReparseDone
  /\ NoFieldNeedsQuoting
  /\ DistinctHeaderNames
  /\ Len(rows) = 2
  /\ Len(rows[1]) = 2
  /\ Len(result) = 1
  /\ rows[2][1] = <<"a">>
  /\ \E k \in 1..Len(csv.s) : csv.s[k] = LF

(***************************************************************************)
(* Properties of createCSV followed by parseCSV.                           *)
(***************************************************************************)
\* The row object restricted to the listed columns.
Projected(obj) == [k \in Range(columns) |-> Get(obj, k)]

\* A returned row object, its texts as values.
AsValues(obj) == [k \in DOMAIN obj |-> Str(obj[k])]

\* The values createCSV reads, as a set.
ProjectedValues ==
  {Get(data[r], columns[c]) : r \in 1..Len(data), c \in 1..Len(columns)}

RoundTripDone == pc = "done" /\ csv # None /\ value = None

\* parseCSV(createCSV(rows, columns)) equals rows projected onto columns.
RoundTrips ==
  /\ Len(result) = Len(data)
  /\ \A r \in 1..Len(result) : AsValues(result[r]) = Projected(data[r])

AllStrings == \A x \in ProjectedValues : x.t = "string"

NoSpecialChars ==
  \A x \in ProjectedValues :
    Range(x.s) \cap (Range(delimiter) \cup {Quote, LF, CR}) = {}

\* s.trim() leaves the text as it is.
NoOuterWhiteSpace(s) ==
  s = <<>> \/ (s[1] \notin WhiteSpaceChars /\ s[Len(s)] \notin WhiteSpaceChars)

Untrimmed ==
  /\ \A x \in ProjectedValues : NoOuterWhiteSpace(x.s)
  /\ \A c \in 1..Len(columns) : NoOuterWhiteSpace(columns[c])

\* Every row has a projected value that is not the empty string.
NoBlankDataRow ==
  \A r \in 1..Len(data) :
    \E c \in 1..Len(columns) : Get(data[r], columns[c]) # Str(<<>>)

\* C1 as stated: rows of texts without delimiter, quote, \n and \r come
\* back from parseCSV(createCSV(rows, columns)) projected onto columns.
C1_Original ==
  (RoundTripDone /\ AllStrings /\ NoSpecialChars) => RoundTrips

\* C1: with the default options, rows of texts that hold no delimiter,
\* quote, \n or \r and no leading or trailing whitespace, under column names
\* without leading or trailing whitespace, each row with a non-empty
\* projected value, come back projected onto the columns.
C1_RoundTripPlain ==
  (RoundTripDone /\ AllStrings /\ NoSpecialChars /\ Untrimmed
     /\ NoBlankDataRow) => RoundTrips

\* Two plain rows under two distinct columns have come back.
C1_Witness ==
  /\ RoundTripDone
  /\ AllStrings
  /\ NoSpecialChars
  /\ Untrimmed
  /\ NoBlankDataRow
  /\ Len(data) = 2
  /\ data[1] # data[2]
  /\ columns = <<<<"b">>, <<"a">>>>
  /\ Len(result) = 2

\* C2 as stated: rows of arbitrary texts come back field for field.
C2_Original ==
  (RoundTripDone /\ AllStrings) => RoundTrips

\* C2: with the default options, rows of texts without leading or trailing
\* whitespace, under column names without leading or trailing whitespace,
\* each row with a non-empty projected value, come back field for field,
\* also when the texts hold the delimiter, quotes, \n or \r.
C2_RoundTripSpecial ==
  (RoundTripDone /\ AllStrings /\ Untrimmed /\ NoBlankDataRow) => RoundTrips

\* Rows holding a delimiter, a quote and a line break have come back.
C2_Witness ==
  /\ RoundTripDone
  /\ AllStrings
  /\ Untrimmed
  /\ NoBlankDataRow
  /\ Len(columns) = 2
  /\ Len(data) = 2
  /\ {Comma, Quote, CR, LF} \subseteq
       UNION {Range(x.s) : x \in ProjectedValues}
  /\ Len(result) = 2

\* The column names are pairwise distinct.
DistinctColumns ==
  \A x, y \in 1..Len(columns) : x # y => columns[x] # columns[y]

\* The text holds a character that is not whitespace.
HasContent(v) == v.t = "string" /\ Range(v.s) \ WhiteSpaceChars # {}

\* Every row has a projected value that is not whitespace-only.
EveryRowHasContent ==
  \A r \in 1..Len(data) :
    \E c \in 1..Len(columns) : HasContent(Get(data[r], columns[c]))

\* C27: for the delimiters comma, semicolon and space, both quoteAll flags
\* and trimValues false, a non-empty list of rows of texts under distinct
\* column names, each row with a projected value that is not
\* whitespace-only, comes back from parseCSV(createCSV(..)) exactly,
\* projected onto the columns.
C27_ExactRoundTrip ==
  (RoundTripDone /\ ~trimValues /\ data # <<>> /\ DistinctColumns
     /\ AllStrings /\ EveryRowHasContent) => RoundTrips

\* Two rows whose values hold the delimiter, surrounding whitespace, a
\* quote and a carriage return have come back under the space delimiter.
C27_Witness ==
  /\ RoundTripDone
  /\ ~trimValues
  /\ delimiter = <<Space>>
  /\ ~quoteAll
  /\ DistinctColumns
  /\ AllStrings
  /\ EveryRowHasContent
  /\ columns = <<<<Space, Quote>>, <<"a">>>>
  /\ Len(data) = 2
  /\ data[1][<<"a">>] = Str(<<Space, "a", Space>>)
  /\ data[2][<<"a">>] = Str(<<"a", CR>>)
  /\ data[2][<<Space, Quote>>] = Str(<<Space>>)
  /\ RoundTrips

(***************************************************************************)
(* Properties of createCSV.                                                *)
(***************************************************************************)
CreateDone == pc = "done" /\ csv # None /\ value = None /\ i = 0

\* The escaped values of the columns of a row, in column-list order.
EscapedFields(obj) ==
  [c \in 1..Len(columns) |->
     escapeCSVValue(Get(obj, columns[c]), delimiter, quoteAll)]

\* The escaped column names, in column-list order.
EscapedNames ==
  [c \in 1..Len(columns) |->
     escapeCSVValue(Str(columns[c]), delimiter, quoteAll)]

\* The header line when asked for, then one line per row in input order.
ExpectedLines ==
  (IF addHeader THEN <<Glue(EscapedNames, delimiter)>> ELSE <<>>)
    \o [r \in 1..Len(data) |-> Glue(EscapedFields(data[r]), delimiter)]

\* C11: the text returned by createCSV is the header line (when addHeader)
\* and one line per row in input order, joined by single \n without a
\* trailing one, each line the escaped values of the columns in column-list
\* order joined by the delimiter; without rows it is the header line alone
\* when addHeader and the empty text otherwise.
C11_OutputShape ==
  CreateDone =>
    /\ csv.s = Glue(ExpectedLines, <<LF>>)
    /\ (data = <<>> /\ addHeader => csv.s = Glue(EscapedNames, delimiter))
    /\ (data = <<>> /\ ~addHeader => csv.s = <<>>)

\* Two rows under a column listed twice, with a header line.
C11_Witness ==
  /\ CreateDone
  /\ addHeader
  /\ Len(data) = 2
  /\ data[1] # data[2]
  /\ Len(columns) = 2
  /\ columns[1] = columns[2]
  /\ Len(Glue(EscapedNames, delimiter)) < Len(csv.s)

\* No rows and no header line: the empty text.
C11_WitnessEmpty ==
  /\ CreateDone
  /\ ~addHeader
  /\ data = <<>>
  /\ columns # <<>>
  /\ csv.s = <<>>

\* The value createCSV is to write for a column: null when the row does not
\* hold the key.
ValueOrNull(obj, key) == IF key \in DOMAIN obj THEN obj[key] ELSE Null

\* The field of a value that is null, undefined or absent is the empty text.
FieldsNullEmpty(obj) ==
  [c \in 1..Len(columns) |->
     IF IsNullish(ValueOrNull(obj, columns[c])) THEN <<>>
     ELSE escapeCSVValue(obj[columns[c]], delimiter, quoteAll)]

\* C12 as stated: every field whose value is null or undefined, or whose
\* column key the row does not hold, is the empty text without quotes, for
\* every delimiter and for quoteAll too.
C12_Original ==
  CreateDone =>
    csv.s = Glue((IF addHeader THEN <<Glue(EscapedNames, delimiter)>>
                               ELSE <<>>)
                   \o [r \in 1..Len(data) |->
                         Glue(FieldsNullEmpty(data[r]), delimiter)],
                 <<LF>>)

\* The part of C12 the code keeps: a value that is null or undefined, own or
\* looked up, is written as the empty text without quotes.
NullishFieldsEmpty ==
  CreateDone =>
    \A r \in 1..Len(data) : \A c \in 1..Len(columns) :
      IsNullish(Get(data[r], columns[c])) => EscapedFields(data[r])[c] = <<>>

\* The text a column name or a text value is to appear as.
QuoteDoubled(s) ==
  Glue([k \in 1..Len(s) |->
          IF s[k] = Quote THEN <<Quote, Quote>> ELSE <<s[k]>>],
       <<>>)

MustQuote(s) ==
  quoteAll \/ Range(s) \cap (Range(delimiter) \cup {Quote, LF, CR}) # {}

ExpectedName(s) ==
  IF MustQuote(s) THEN <<Quote>> \o QuoteDoubled(s) \o <<Quote>> ELSE s

ExpectedHeader ==
  Glue([c \in 1..Len(columns) |-> ExpectedName(columns[c])], delimiter)

\* C13: with addHeader the text starts with the header line, which ends at
\* the end of the text or at the \n before the first row; the line is the
\* column names joined by the delimiter, a name in quotes with its quotes
\* doubled when quoteAll is set or when it holds the delimiter, a quote or
\* a line break, and as it is otherwise.
C13_HeaderEscaping ==
  (CreateDone /\ addHeader) =>
    /\ Len(csv.s) >= Len(ExpectedHeader)
    /\ SubSeq(csv.s, 1, Len(ExpectedHeader)) = ExpectedHeader
    /\ IF data = <<>> THEN Len(csv.s) = Len(ExpectedHeader)
       ELSE /\ Len(csv.s) > Len(ExpectedHeader)
            /\ csv.s[Len(ExpectedHeader) + 1] = LF

\* Without quoteAll, a header of a plain name and a name that holds the
\* delimiter, before one row.
C13_Witness ==
  /\ CreateDone
  /\ addHeader
  /\ ~quoteAll
  /\ Len(data) = 1
  /\ Len(columns) = 2
  /\ ~MustQuote(columns[1])
  /\ Range(delimiter) \subseteq Range(columns[2])
  /\ csv.s[Len(columns[1]) + 2] = Quote

\* With quoteAll, a header of two plain names.
C13_WitnessQuoteAll ==
  /\ CreateDone
  /\ addHeader
  /\ quoteAll
  /\ columns = <<<<"a">>, <<"b">>>>
  /\ csv.s[1] = Quote

(***************************************************************************)
(* Properties of the object-based emitter.                                 *)
(***************************************************************************)
\* The callbacks call q of the log, an emit, has invoked, in order.
InvokedAt(q) == [x \in 1..Len(log[q].invoked) |-> log[q].invoked[x].cb]

\* Call r of the log registers a listener for the event of call q, and no
\* unbind function of that listener and event is called between r and q.
StillBound(r, q) ==
  /\ log[r].op = "on"
  /\ log[r].event = log[q].event
  /\ \A p \in (r + 1)..(q - 1) :
       ~(/\ log[p].op = "unbind"
         /\ log[p].event = log[r].event
         /\ log[p].cb = log[r].cb)

\* The listeners registered by the first r calls that are still bound at
\* call q, in registration order.
RECURSIVE BoundListeners(_, _)
BoundListeners(r, q) ==
  IF r = 0 THEN <<>>
  ELSE BoundListeners(r - 1, q)
         \o (IF StillBound(r, q) THEN <<log[r].cb>> ELSE <<>>)

ReturnsNormally ==
  \A n \in DOMAIN getter : getter[n].t # "throws"

\* C21: for a getter that returns normally the getter is not invoked before
\* the first access to value, and after any number of accesses it has been
\* invoked once and every access returned what that invocation returned.
C21_LazyMemoizes ==
  (pc = "lazy" /\ ReturnsNormally) =>
    /\ invocations = IF returned = <<>> THEN 0 ELSE 1
    /\ \A x \in 1..Len(returned) : returned[x] = getter[1]

\* Two accesses returned the first outcome of a getter whose second
\* invocation would have returned something else.
C21_Witness ==
  /\ pc = "lazy"
  /\ ReturnsNormally
  /\ Len(returned) >= 2
  /\ getter[2] # getter[1]
  /\ invocations = 1
  /\ returned[2] = getter[1]

(***************************************************************************)
(* Properties of the emitter.                                              *)
(***************************************************************************)
\* The handlers registered for a type, none when the Map lacks the type.
HandlersOf(evs, type) == IF type \in DOMAIN evs THEN evs[type] ELSE <<>>

\* The invocations emit(type, evt) is to make: the handlers of the type in
\* registration order with the event, then the '*' handlers in registration
\* order with the type and the event.
ExpectedCalls(type, evt) ==
  [x \in 1..Len(HandlersOf(events, type)) |->
     [handler |-> HandlersOf(events, type)[x], args |-> <<evt>>]]
    \o [x \in 1..Len(HandlersOf(events, Star)) |->
          [handler |-> HandlersOf(events, Star)[x], args |-> <<type, evt>>]]

\* C17: during emit(type, event) for an event type other than '*' the
\* invocations made so far are the beginning, and after its return the
\* whole, of: every handler registered for the type once per registration,
\* in registration order, with the event; then every '*' handler with the
\* type and the event.  No handler of another type is among them.
C17_EmitOrder ==
  (call.op = "emit" /\ call.type # Star) =>
    /\ Len(calls) <= Len(ExpectedCalls(call.type, call.evt))
    /\ calls = SubSeq(ExpectedCalls(call.type, call.evt), 1, Len(calls))
    /\ pc = "wildcard" => Len(calls) >= Len(HandlersOf(events, call.type))
    /\ pc = "idle" => calls = ExpectedCalls(call.type, call.evt)

\* emit('foo', evt) has returned after two handlers of foo and a '*'
\* handler, with a handler registered for FOO left alone.
C17_Witness ==
  /\ pc = "idle"
  /\ call.op = "emit"
  /\ call.type = "foo"
  /\ HandlersOf(events, "foo") = <<"a", "b">>
  /\ HandlersOf(events, Star) = <<"b">>
  /\ Len(calls) = 3

\* A step of on, off with a handler, off without a handler.
IsOn == pc = "idle" /\ pc' = "idle" /\ call'.op = "on"
IsOffHandler ==
  pc = "idle" /\ pc' = "idle" /\ call'.op = "off" /\ call'.handler # Omitted
IsOffType ==
  pc = "idle" /\ pc' = "idle" /\ call'.op = "off" /\ call'.handler = Omitted

\* The step leaves every type but the given one as it is in the Map.
OtherTypesUnchanged(type) ==
  \A other \in (DOMAIN events \cup DOMAIN events') \ {type} :
    /\ other \in DOMAIN events
    /\ other \in DOMAIN events'
    /\ events'[other] = events[other]

Count(list, handler) ==
  Cardinality({x \in 1..Len(list) : list[x] = handler})

\* The list without its element at position n.
RemoveAt(list, n) ==
  [x \in 1..(Len(list) - 1) |-> IF x < n THEN list[x] ELSE list[x + 1]]

\* The list without the first occurrence of the handler.
WithoutFirst(list, handler) ==
  IF Count(list, handler) = 0 THEN list
  ELSE RemoveAt(list, CHOOSE x \in 1..Len(list) :
                        /\ list[x] = handler
                        /\ \A y \in 1..(x - 1) : list[y] # handler)

\* C18: off(type, handler) takes the first occurrence of the handler, and
\* nothing else, out of the handler list of the type: of n occurrences
\* n - 1 remain (none of none), and the handlers that remain keep their
\* order; so n registrations and k <= n removals leave n - k occurrences.
C18_OffRemovesFirst ==
  [][IsOffHandler =>
       LET before == HandlersOf(events, call'.type)
           after == HandlersOf(events', call'.type)
       IN  /\ after = WithoutFirst(before, call'.handler)
           /\ Count(before, call'.handler) > 0 =>
                Count(after, call'.handler)
                  = Count(before, call'.handler) - 1
           /\ \A other \in Handlers \ {call'.handler} :
                Count(after, other) = Count(before, other)
           /\ OtherTypesUnchanged(call'.type)
    ]_vars

\* off('foo', a) has left the later of two a behind b.
C18_Witness ==
  /\ pc = "idle"
  /\ call.op = "off"
  /\ call.type = "foo"
  /\ call.handler = "a"
  /\ HandlersOf(events, "foo") = <<"b", "a">>

IsOffNothing ==
  /\ pc = "idle"
  /\ pc' = "idle"
  /\ call'.op = "off"
  /\ IF call'.type \notin DOMAIN events THEN TRUE
     ELSE /\ call'.handler # Omitted
          /\ Count(events[call'.type], call'.handler) = 0

\* C30: off(type, handler) with a handler that the list of the type does
\* not hold, and off with a type the Map holds no list for, leave the Map
\* as it is: the same keys, each with the same list.
C30_OffNothingToRemove ==
  [][IsOffNothing =>
       /\ DOMAIN events' = DOMAIN events
       /\ \A type \in DOMAIN events : events'[type] = events[type]
    ]_vars

\* off('foo', b) has returned with MaxHandlers times a in the list of foo:
\* the list was full, so it held no b before the call.
C30_Witness ==
  /\ pc = "idle"
  /\ call.op = "off"
  /\ call.type = "foo"
  /\ call.handler = "b"
  /\ HandlersOf(events, "foo") = [x \in 1..MaxHandlers |-> "a"]

\* off('FOO', a) has returned and the Map holds no list for FOO, while it
\* holds one for foo.
C30_WitnessNoEntry ==
  /\ pc = "idle"
  /\ call.op = "off"
  /\ call.type = "FOO"
  /\ call.handler = "a"
  /\ "FOO" \notin DOMAIN events
  /\ HandlersOf(events, "foo") = <<"a", "b">>

\* The typed phase of emit(type, evt) for a type other than '*'.
InTypedPhase == pc = "typed" /\ call.op = "emit" /\ call.type # Star

\* C29: emit(type, evt) for a type other than '*' takes the handler list of
\* the type as it is when emit is called; every typed invocation is that of
\* the next entry of this list, also when the handler invoked before called
\* on or off for the type; and the typed phase ends when every entry of the
\* list has been invoked once, in order.  The Map a later emit reads is the
\* one the handlers left.
C29_EmitSnapshot ==
  [][/\ (pc = "idle" /\ pc' = "typed") =>
          /\ handlers' = HandlersOf(events, call'.type)
          /\ calls' = <<>>
          /\ events' = events
     /\ (InTypedPhase /\ pc' = "typed") =>
          /\ handlers' = handlers
          /\ position < Len(handlers)
          /\ calls' = Append(calls, [handler |-> handlers[position + 1],
                                     args |-> <<call.evt>>])
     /\ (InTypedPhase /\ pc' = "wildcard") =>
          /\ Len(calls) = Len(handlers)
          /\ \A x \in 1..Len(handlers) :
               calls[x] = [handler |-> handlers[x], args |-> <<call.evt>>]
          /\ events' = events
    ]_vars

\* emit('foo') took the list a, b; both were invoked although the list of
\* foo was emptied by a handler during the emit.
C29_Witness ==
  /\ InTypedPhase
  /\ call.type = "foo"
  /\ handlers = <<"a", "b">>
  /\ position = 2
  /\ Len(calls) = 2
  /\ calls[1].handler = "a"
  /\ calls[2].handler = "b"
  /\ "foo" \in DOMAIN events
  /\ events["foo"] = <<>>

\* emit('foo') took the list a; it alone was invoked although it registered
\* b for foo during the emit.
C29_WitnessOn ==
  /\ InTypedPhase
  /\ call.type = "foo"
  /\ handlers = <<"a">>
  /\ position = 1
  /\ calls = <<[handler |-> "a", args |-> <<call.evt>>]>>
  /\ HandlersOf(events, "foo") = <<"a", "b">>

\* C20: on(type, handler) puts the handler at the end of the list of
\* exactly that type, a handler the list holds already included, and leaves
\* every other type (one that differs in case only, a symbol) as it is; so
\* the list of a type is the handlers registered for it in call order.
C20_OnAppends ==
  [][IsOn =>
       /\ call'.type \in DOMAIN events'
       /\ HandlersOf(events', call'.type)
            = HandlersOf(events, call'.type) \o <<call'.handler>>
       /\ OtherTypesUnchanged(call'.type)
    ]_vars

\* on('FOO', a) after a was registered for FOO already, with foo and the
\* symbol holding lists of their own.
C20_Witness ==
  /\ pc = "idle"
  /\ call.op = "on"
  /\ call.type = "FOO"
  /\ call.handler = "a"
  /\ HandlersOf(events, "FOO") = <<"a", "a">>
  /\ HandlersOf(events, "foo") = <<>>
  /\ HandlersOf(events, "Symbol(foo)") = <<"b">>

====
